---- MODULE Spec2Model ----
(***************************************************************************)
(* GovtDataBridge (src/GovtDataBridge/app.py): column-name normalisation,  *)
(* schema inference from an uploaded file, ordered-removal schema matching *)
(* and the /match request handler.                                         *)
(*                                                                         *)
(* Python strings are sequences of one-character strings.  Python values   *)
(* that reach normalize_name are tagged: [type |-> "str", val |-> chars]   *)
(* or [type |-> "int", val |-> n] (a numeric spreadsheet header).          *)
(***************************************************************************)
EXTENDS Integers, Sequences, FiniteSets, TLC

VARIABLES
    raw_x, raw_y,        \* normaliser harness: the two raw names
    norm_x, norm_y,      \* normalize_name(raw_x), normalize_name(raw_y)
    norm_xx,             \* normalize_name(norm_x)
    npc,                 \* normaliser harness position
    request,             \* request.json of the /match request being served
    pc,                  \* position of perform_match
    heap,                \* list objects of the request: object id -> list
    results,             \* the dict returned by match_schemas (references)
    response,            \* what perform_match returns (status, body)
    match_calls          \* number of invocations of match_schemas

vars == <<raw_x, raw_y, norm_x, norm_y, norm_xx, npc,
          request, pc, heap, results, response, match_calls>>

normVars == <<raw_x, raw_y, norm_x, norm_y, norm_xx, npc>>
reqVars  == <<request, pc, heap, results, response, match_calls>>

-----------------------------------------------------------------------------
(* Bounds *)

MaxLen == 3        \* longest raw name raw_x of the normaliser harness
MaxLenY == 2       \* longest raw name raw_y of the normaliser harness
MaxFields == 3     \* most fields of an enumerated file

-----------------------------------------------------------------------------
(* Characters and strings *)

UpperChars == <<"A","B","C","D","E","F","G","H","I","J","K","L","M",
                "N","O","P","Q","R","S","T","U","V","W","X","Y","Z">>
LowerChars == <<"a","b","c","d","e","f","g","h","i","j","k","l","m",
                "n","o","p","q","r","s","t","u","v","w","x","y","z">>
DigitChars == <<"0","1","2","3","4","5","6","7","8","9">>

\* code-point order of the characters used (ASCII order)
CodeOrder == <<"\t", "\n", " ", "-", ".">> \o DigitChars \o UpperChars
                 \o <<"_">> \o LowerChars

Range(s) == {s[i] : i \in DOMAIN s}

CharCode(c) == CHOOSE i \in DOMAIN CodeOrder : CodeOrder[i] = c

\* the characters str.strip() removes from both ends
Whitespace == {" ", "\t", "\n"}

PyStr(s) == [type |-> "str", val |-> s]
PyInt(n) == [type |-> "int", val |-> n]

\* harness variable not yet assigned
NoValue == PyStr(<<"?">>)

PyTuple(t) == [type |-> "tuple", val |-> t]

isinstance_str(v) == v.type = "str"

RECURSIVE Digits(_)
Digits(n) == IF n < 10 THEN <<DigitChars[n + 1]>>
             ELSE Digits(n \div 10) \o <<DigitChars[(n % 10) + 1]>>

\* str(name) for the non-string values modelled (non-negative integers)
str(v) == IF v.type = "str" THEN v.val ELSE Digits(v.val)

RECURSIVE lstrip(_)
lstrip(s) == IF s # <<>> /\ Head(s) \in Whitespace THEN lstrip(Tail(s)) ELSE s

RECURSIVE rstrip(_)
rstrip(s) == IF s # <<>> /\ s[Len(s)] \in Whitespace
             THEN rstrip(SubSeq(s, 1, Len(s) - 1)) ELSE s

strip(s) == rstrip(lstrip(s))

LowerChar(c) == IF c \in Range(UpperChars)
                THEN LowerChars[CHOOSE i \in DOMAIN UpperChars : UpperChars[i] = c]
                ELSE c

lower(s) == [i \in DOMAIN s |-> LowerChar(s[i])]

\* s.replace(c, ""), c a single character
RECURSIVE replace_del(_, _)
replace_del(s, c) ==
    IF s = <<>> THEN <<>>
    ELSE IF Head(s) = c THEN replace_del(Tail(s), c)
    ELSE <<Head(s)>> \o replace_del(Tail(s), c)

normalize_name_keep_underscore(name) ==
    LET n == IF ~isinstance_str(name) THEN str(name) ELSE name.val
    IN  PyStr(replace_del(lower(strip(n)), " "))

normalize_name(name) ==
    LET n == IF ~isinstance_str(name) THEN str(name) ELSE name.val
    IN  PyStr(replace_del(replace_del(lower(strip(n)), " "), "_"))

-----------------------------------------------------------------------------
(* Python lists *)

list_contains(l, x) == \E i \in DOMAIN l : l[i] = x

\* position of the first occurrence of x in l (x occurs in l)
list_index(l, x) == CHOOSE i \in DOMAIN l : l[i] = x /\ \A j \in 1..(i - 1) : l[j] # x

\* deletes the last occurrence of x instead of the first
list_remove_last(l, x) ==
    LET k == CHOOSE i \in DOMAIN l : l[i] = x /\ \A j \in (i + 1)..Len(l) : l[j] # x
    IN  SubSeq(l, 1, k - 1) \o SubSeq(l, k + 1, Len(l))

\* l.remove(x): deletes the first occurrence of x (x occurs in l)
list_remove(l, x) ==
    LET k == list_index(l, x)
    IN  SubSeq(l, 1, k - 1) \o SubSeq(l, k + 1, Len(l))

\* s < t in Python's string order (code points, shorter prefix first)
RECURSIVE StrLess(_, _)
StrLess(s, t) ==
    IF t = <<>> THEN FALSE
    ELSE IF s = <<>> THEN TRUE
    ELSE IF Head(s) = Head(t) THEN StrLess(Tail(s), Tail(t))
    ELSE CharCode(Head(s)) < CharCode(Head(t))

\* sorted(list(set(l))) for a list l of strings
RECURSIVE sorted_set(_)
sorted_set(S) ==
    IF S = {} THEN <<>>
    ELSE LET m == CHOOSE e \in S : \A o \in S \ {e} : StrLess(e.val, o.val)
         IN  <<m>> \o sorted_set(S \ {m})

-----------------------------------------------------------------------------
(* Schema inference.  A file's content is what the parser of the declared  *)
(* format finds in it: kind "blank" (empty or whitespace only), "invalid"  *)
(* (the parser raises), "columns" (CSV/XLSX header row), "object" (JSON     *)
(* object), "array" (JSON array whose first element is an object),         *)
(* "scalar" (any other JSON value), "tags" (children of the XML root, in   *)
(* document order); fields are the raw names it finds.                     *)

normalize_all(fields) == [i \in DOMAIN fields |-> normalize_name(fields[i])]

infer_schema_from_csv_content(content) ==
    IF content.kind = "blank" THEN <<>>
    ELSE IF content.kind = "columns" THEN normalize_all(content.fields)
    ELSE <<>>

infer_schema_from_json_content(content) ==
    IF content.kind = "blank" THEN <<>>
    ELSE IF content.kind = "array" THEN normalize_all(content.fields)
    ELSE IF content.kind = "object" THEN normalize_all(content.fields)
    ELSE <<>>

infer_schema_from_xlsx_content(content) ==
    IF content.kind = "blank" THEN <<>>
    ELSE IF content.kind = "columns" THEN normalize_all(content.fields)
    ELSE <<>>

infer_schema_from_xml_content(content) ==
    IF content.kind = "blank" THEN <<>>
    ELSE IF content.kind = "tags"
         THEN normalize_all(sorted_set(Range(content.fields)))
    ELSE <<>>

-----------------------------------------------------------------------------
(* match_schemas.  Lists are objects of the heap, held by reference.       *)

ObjIds == {"parsed_schema_a", "parsed_schema_b",
           "unmatched_a", "unmatched_b", "matches"}

EmptyHeap == [o \in ObjIds |-> <<>>]

list_alias_ref(src, fresh) == src

\* the object list(src) evaluates to: a new list, not src itself
list_copy_ref(src, fresh) == fresh

\* the loop without line 101 (unmatched_b.remove)
RECURSIVE MatchLoop_keep_b(_, _, _)
MatchLoop_keep_b(h, r, i) ==
    IF i > Len(h[r.a]) THEN [heap |-> h, raised |-> FALSE]
    ELSE LET field_a == h[r.a][i]
         IN  IF list_contains(h[r.ub], field_a)
             THEN IF ~list_contains(h[r.ua], field_a)
                  THEN [heap |-> [h EXCEPT ![r.m] = Append(@, PyTuple(<<field_a, field_a>>))],
                        raised |-> TRUE]
                  ELSE LET h1 == [h  EXCEPT ![r.m] = Append(@, PyTuple(<<field_a, field_a>>))]
                           h2 == [h1 EXCEPT ![r.ua] = list_remove(@, field_a)]
                       IN  MatchLoop_keep_b(h2, r, i + 1)
             ELSE MatchLoop_keep_b(h, r, i + 1)

\* the for loop of match_schemas from its i-th iteration on; r holds the
\* references a (schema_a_fields), ua, ub, m (matches)
RECURSIVE MatchLoop(_, _, _)
MatchLoop(h, r, i) ==
    IF i > Len(h[r.a]) THEN [heap |-> h, raised |-> FALSE]
    ELSE LET field_a == h[r.a][i]
         IN  IF list_contains(h[r.ub], field_a)
             THEN IF ~list_contains(h[r.ua], field_a)
                  THEN [heap |-> [h EXCEPT ![r.m] = Append(@, PyTuple(<<field_a, field_a>>))],
                        raised |-> TRUE]     \* ValueError from list.remove
                  ELSE LET h1 == [h  EXCEPT ![r.m] = Append(@, PyTuple(<<field_a, field_a>>))]
                           h2 == [h1 EXCEPT ![r.ua] = list_remove(@, field_a)]
                           h3 == [h2 EXCEPT ![r.ub] = list_remove(@, field_a)]
                       IN  MatchLoop(h3, r, i + 1)
             ELSE MatchLoop(h, r, i + 1)

match_schemas(h, schema_a_fields, schema_b_fields) ==
    LET ua == list_copy_ref(schema_a_fields, "unmatched_a")
        ub == list_copy_ref(schema_b_fields, "unmatched_b")
        h0 == [h  EXCEPT !["matches"] = <<>>]
        h1 == [h0 EXCEPT ![ua] = h0[schema_a_fields]]
        h2 == [h1 EXCEPT ![ub] = h1[schema_b_fields]]
        out == MatchLoop(h2, [a |-> schema_a_fields, ua |-> ua, ub |-> ub,
                              m |-> "matches"], 1)
    IN  [heap |-> out.heap, raised |-> out.raised,
         ret |-> [matches |-> "matches", unmatched_a |-> ua, unmatched_b |-> ub]]

\* a Python value as JSON: a tuple becomes an array, a string a string
to_json(v) == IF v.type = "tuple" THEN [type |-> "list", val |-> v.val] ELSE v

\* jsonify(results): the three lists by value
jsonify(h, res) ==
    [matches |-> [i \in DOMAIN h[res.matches] |-> to_json(h[res.matches][i])],
     unmatched_a |-> h[res.unmatched_a],
     unmatched_b |-> h[res.unmatched_b]]

-----------------------------------------------------------------------------
(* perform_match: the /match request *)

\* os.path.splitext(name)[1] for a name without directory part: from the
\* last dot on, provided a character other than a dot comes before it
splitext_ext(name) ==
    LET dots == {i \in DOMAIN name : name[i] = "."}
    IN  IF dots = {} THEN <<>>
        ELSE LET k == CHOOSE i \in dots : \A j \in dots : j <= i
             IN  IF \E j \in 1..(k - 1) : name[j] # "."
                 THEN SubSeq(name, k, Len(name)) ELSE <<>>

ExtCsv  == <<".", "c", "s", "v">>
ExtJson == <<".", "j", "s", "o", "n">>
ExtXlsx == <<".", "x", "l", "s", "x">>
ExtXml  == <<".", "x", "m", "l">>

\* the try block without the re-raise: a decoding error leaves the schema empty
process_file_swallow(file) ==
    IF ~file.b64ok THEN [raised |-> FALSE, schema |-> <<>>]
    ELSE LET file_extension == splitext_ext(lower(file.name))
         IN  IF file_extension = ExtCsv
             THEN [raised |-> FALSE,
                   schema |-> IF file.utf8ok
                              THEN infer_schema_from_csv_content(file.content) ELSE <<>>]
             ELSE IF file_extension = ExtJson
             THEN [raised |-> FALSE,
                   schema |-> IF file.utf8ok
                              THEN infer_schema_from_json_content(file.content) ELSE <<>>]
             ELSE IF file_extension = ExtXlsx
             THEN [raised |-> FALSE,
                   schema |-> infer_schema_from_xlsx_content(file.content)]
             ELSE IF file_extension = ExtXml
             THEN [raised |-> FALSE,
                   schema |-> IF file.utf8ok
                              THEN infer_schema_from_xml_content(file.content) ELSE <<>>]
             ELSE [raised |-> FALSE, schema |-> <<>>]

\* the try block with parsers that let their errors escape
process_file_strict(file) ==
    IF ~file.b64ok THEN [raised |-> TRUE, schema |-> <<>>]
    ELSE LET file_extension == splitext_ext(lower(file.name))
         IN  IF file_extension = ExtCsv
             THEN IF ~file.utf8ok \/ file.content.kind = "invalid"
                  THEN [raised |-> TRUE, schema |-> <<>>]
                  ELSE [raised |-> FALSE,
                        schema |-> infer_schema_from_csv_content(file.content)]
             ELSE IF file_extension = ExtJson
             THEN IF ~file.utf8ok \/ file.content.kind = "invalid"
                  THEN [raised |-> TRUE, schema |-> <<>>]
                  ELSE [raised |-> FALSE,
                        schema |-> infer_schema_from_json_content(file.content)]
             ELSE IF file_extension = ExtXlsx
             THEN [raised |-> FALSE,
                   schema |-> infer_schema_from_xlsx_content(file.content)]
             ELSE IF file_extension = ExtXml
             THEN IF ~file.utf8ok \/ file.content.kind = "invalid"
                  THEN [raised |-> TRUE, schema |-> <<>>]
                  ELSE [raised |-> FALSE,
                        schema |-> infer_schema_from_xml_content(file.content)]
             ELSE [raised |-> FALSE, schema |-> <<>>]

\* the body of the try block of a present file: raised when b64decode or
\* bytes.decode('utf-8') raises, else the list bound to parsed_schema_x
\* (the initial [] when the extension is not supported)
process_file(file) ==
    IF ~file.b64ok THEN [raised |-> TRUE, schema |-> <<>>]
    ELSE LET file_extension == splitext_ext(lower(file.name))
         IN  IF file_extension = ExtCsv
             THEN IF ~file.utf8ok THEN [raised |-> TRUE, schema |-> <<>>]
                  ELSE [raised |-> FALSE,
                        schema |-> infer_schema_from_csv_content(file.content)]
             ELSE IF file_extension = ExtJson
             THEN IF ~file.utf8ok THEN [raised |-> TRUE, schema |-> <<>>]
                  ELSE [raised |-> FALSE,
                        schema |-> infer_schema_from_json_content(file.content)]
             ELSE IF file_extension = ExtXlsx
             THEN [raised |-> FALSE,
                   schema |-> infer_schema_from_xlsx_content(file.content)]
             ELSE IF file_extension = ExtXml
             THEN IF ~file.utf8ok THEN [raised |-> TRUE, schema |-> <<>>]
                  ELSE [raised |-> FALSE,
                        schema |-> infer_schema_from_xml_content(file.content)]
             ELSE [raised |-> FALSE, schema |-> <<>>]

NoResults == [matches |-> "none", unmatched_a |-> "none", unmatched_b |-> "none"]
EmptyBody == [matches |-> <<>>, unmatched_a |-> <<>>, unmatched_b |-> <<>>]
NoResponse == [status |-> 0, error |-> "", body |-> EmptyBody]

ProcessFileA ==
    /\ pc = "start"
    /\ IF request.file_a.present
       THEN LET r == process_file(request.file_a)
            IN  IF r.raised
                THEN /\ response' = [status |-> 400,
                                     error |-> "Could not process file A",
                                     body |-> EmptyBody]
                     /\ pc' = "done"
                     /\ UNCHANGED heap
                ELSE /\ heap' = [heap EXCEPT !["parsed_schema_a"] = r.schema]
                     /\ pc' = "file_b"
                     /\ UNCHANGED response
       ELSE /\ pc' = "file_b"
            /\ UNCHANGED <<heap, response>>
    /\ UNCHANGED <<request, results, match_calls>>
    /\ UNCHANGED normVars

ProcessFileB ==
    /\ pc = "file_b"
    /\ IF request.file_b.present
       THEN LET r == process_file(request.file_b)
            IN  IF r.raised
                THEN /\ response' = [status |-> 400,
                                     error |-> "Could not process file B",
                                     body |-> EmptyBody]
                     /\ pc' = "done"
                     /\ UNCHANGED heap
                ELSE /\ heap' = [heap EXCEPT !["parsed_schema_b"] = r.schema]
                     /\ pc' = "match"
                     /\ UNCHANGED response
       ELSE /\ pc' = "match"
            /\ UNCHANGED <<heap, response>>
    /\ UNCHANGED <<request, results, match_calls>>
    /\ UNCHANGED normVars

\* results = match_schemas(parsed_schema_a, parsed_schema_b); an exception
\* escaping match_schemas is not caught and ends the request with a 500
CallMatch ==
    /\ pc = "match"
    /\ LET out == match_schemas(heap, "parsed_schema_a", "parsed_schema_b")
       IN  /\ heap' = out.heap
           /\ match_calls' = match_calls + 1
           /\ IF out.raised
              THEN /\ response' = [status |-> 500, error |-> "ValueError",
                                   body |-> EmptyBody]
                   /\ pc' = "done"
                   /\ UNCHANGED results
              ELSE /\ results' = out.ret
                   /\ pc' = "respond"
                   /\ UNCHANGED response
    /\ UNCHANGED request
    /\ UNCHANGED normVars

\* return jsonify(results)
Respond ==
    /\ pc = "respond"
    /\ response' = [status |-> 200, error |-> "", body |-> jsonify(heap, results)]
    /\ pc' = "done"
    /\ UNCHANGED <<request, heap, results, match_calls>>
    /\ UNCHANGED normVars

Next == ProcessFileA \/ ProcessFileB \/ CallMatch \/ Respond

-----------------------------------------------------------------------------
(* The requests enumerated *)

S_CitizenID  == PyStr(<<"C","i","t","i","z","e","n","I","D">>)
S_FullName   == PyStr(<<" ","F","u","l","l"," ","N","a","m","e">>)
S_DOB        == PyStr(<<" ","D","O","B">>)
S_citizen_id == PyStr(<<"c","i","t","i","z","e","n","_","i","d">>)
S_dob        == PyStr(<<"d","o","b">>)
S_address    == PyStr(<<"a","d","d","r","e","s","s">>)

ScenarioA == <<S_CitizenID, S_FullName, S_DOB>>
ScenarioB == <<S_citizen_id, S_dob, S_address>>

RECURSIVE ListsUpTo(_, _)
ListsUpTo(S, n) ==
    IF n = 0 THEN {<<>>}
    ELSE LET shorter == ListsUpTo(S, n - 1)
         IN  shorter \cup {Append(l, e) : l \in shorter, e \in S}

\* lists without a repeated element: dict keys, de-duplicated headers
UniqueListsUpTo(S, n) ==
    {l \in ListsUpTo(S, n) : \A i, j \in DOMAIN l : l[i] = l[j] => i = j}

TextNames == {S_CitizenID, S_citizen_id, S_DOB, S_dob}
SheetNames == {S_CitizenID, S_dob, PyInt(2024)}
TagNames == {S_CitizenID, S_citizen_id, S_dob}

N_csv   == <<"a", ".", "c", "s", "v">>
N_CSV   == <<"A", ".", "C", "S", "V">>
N_json  == <<"a", ".", "j", "s", "o", "n">>
N_xlsx  == <<"a", ".", "x", "l", "s", "x">>
N_xml   == <<"a", ".", "x", "m", "l">>
N_txt   == <<"a", ".", "t", "x", "t">>
N_noext == <<"a">>
N_dot   == <<".", "c", "s", "v">>

Content(kind, fields) == [kind |-> kind, fields |-> fields]

File(name, b64ok, utf8ok, content) ==
    [present |-> TRUE, name |-> name, b64ok |-> b64ok, utf8ok |-> utf8ok,
     content |-> content]

\* file_x_base64 is '' (or missing): the file is skipped
AbsentFile ==
    [present |-> FALSE, name |-> <<>>, b64ok |-> TRUE, utf8ok |-> TRUE,
     content |-> Content("blank", <<>>)]

TextColumns == UniqueListsUpTo(TextNames, MaxFields) \cup {ScenarioA, ScenarioB}

Files ==
    {AbsentFile}
    \cup {File(N_csv, FALSE, TRUE, Content("invalid", <<>>))}
    \cup {File(n, TRUE, FALSE, Content("invalid", <<>>)) :
             n \in {N_csv, N_json, N_xlsx, N_xml, N_txt}}
    \cup {File(n, TRUE, TRUE, Content(k, <<>>)) :
             n \in {N_csv, N_json, N_xlsx, N_xml}, k \in {"blank", "invalid"}}
    \cup {File(N_csv, TRUE, TRUE, Content("columns", l)) : l \in TextColumns}
    \cup {File(N_CSV, TRUE, TRUE, Content("columns", ScenarioA))}
    \cup {File(N_json, TRUE, TRUE, Content(k, l)) :
             k \in {"object", "array"}, l \in UniqueListsUpTo(TextNames, MaxFields)}
    \cup {File(N_json, TRUE, TRUE, Content("scalar", <<>>))}
    \cup {File(N_xlsx, TRUE, FALSE, Content("columns", l)) :
             l \in UniqueListsUpTo(SheetNames, MaxFields)}
    \cup {File(N_xml, TRUE, TRUE, Content("tags", l)) :
             l \in ListsUpTo(TagNames, MaxFields)}
    \cup {File(n, TRUE, TRUE, Content("columns", ScenarioB)) :
             n \in {N_txt, N_noext, N_dot}}

Init ==
    /\ request \in [file_a : Files, file_b : Files]
    /\ pc = "start"
    /\ heap = EmptyHeap
    /\ results = NoResults
    /\ response = NoResponse
    /\ match_calls = 0
    /\ raw_x = NoValue /\ raw_y = NoValue
    /\ norm_x = NoValue /\ norm_y = NoValue /\ norm_xx = NoValue
    /\ npc = "idle"

Spec == Init /\ [][Next]_vars

-----------------------------------------------------------------------------
(* Properties of the /match request *)

FileExt(f) == splitext_ext(lower(f.name))

\* base64 decoding or UTF-8 decoding of the file raises
Undecodable(f) ==
    /\ f.present
    /\ \/ ~f.b64ok
       \/ FileExt(f) \in {ExtCsv, ExtJson, ExtXml} /\ ~f.utf8ok

Count(l, n) == Cardinality({i \in DOMAIN l : l[i] = n})

\* number of elements equal to l[i] among l[1..i]
Rank(l, i) == Cardinality({j \in 1..i : l[j] = l[i]})

\* the match entry recorded for name n
Entry(n) == [type |-> "list", val |-> <<n, n>>]

\* l with the first k occurrences of every name n removed, k = Count(o, n)
RECURSIVE RestFrom(_, _, _)
RestFrom(l, o, i) ==
    IF i > Len(l) THEN <<>>
    ELSE IF Rank(l, i) > Count(o, l[i]) THEN <<l[i]>> \o RestFrom(l, o, i + 1)
    ELSE RestFrom(l, o, i + 1)

\* the occurrences of l among the first Count(o, n) of their name, in order
RECURSIVE MetFrom(_, _, _)
MetFrom(l, o, i) ==
    IF i > Len(l) THEN <<>>
    ELSE IF Rank(l, i) <= Count(o, l[i]) THEN <<Entry(l[i])>> \o MetFrom(l, o, i + 1)
    ELSE MetFrom(l, o, i + 1)

\* match_schemas applied to the lists a and b, as the response body
MatchLists(a, b) ==
    LET out == match_schemas([EmptyHeap EXCEPT !["parsed_schema_a"] = a,
                                               !["parsed_schema_b"] = b],
                             "parsed_schema_a", "parsed_schema_b")
    IN  jsonify(out.heap, out.ret)

Answered == pc = "done" /\ response.status = 200
ArgA == heap["parsed_schema_a"]
ArgB == heap["parsed_schema_b"]
Body == response.body
HasDuplicate(l) == \E i, j \in DOMAIN l : i # j /\ l[i] = l[j]

\* C2: match_schemas is commutative under swapping its arguments: the set of
\* match entries of match(a,b) equals that of match(b,a), and unmatched_a of
\* match(a,b) equals unmatched_b of match(b,a) as an ordered list.
C2_Commutative ==
    Answered =>
        LET swapped == MatchLists(ArgB, ArgA)
        IN  /\ Range(Body.matches) = Range(swapped.matches)
            /\ Body.unmatched_a = swapped.unmatched_b

C2_Witness ==
    /\ Answered
    /\ HasDuplicate(ArgA) /\ ArgA # ArgB
    /\ Body.matches # <<>> /\ Body.unmatched_a # <<>>

\* C3: matching is complete per occurrence: for every name n, the match
\* entries for n plus the occurrences of n in unmatched_a are the occurrences
\* of n in a, and the same for unmatched_b and b.
C3_Complete ==
    Answered =>
        \A n \in Range(ArgA) \cup Range(ArgB) \cup Range(Body.unmatched_a)
                 \cup Range(Body.unmatched_b) :
            /\ Count(Body.matches, Entry(n)) + Count(Body.unmatched_a, n) = Count(ArgA, n)
            /\ Count(Body.matches, Entry(n)) + Count(Body.unmatched_b, n) = Count(ArgB, n)
            /\ \A i \in DOMAIN Body.matches :
                   \E m \in Range(ArgA) : Body.matches[i] = Entry(m)

C3_Witness ==
    /\ Answered
    /\ \E n \in Range(ArgA) : Count(ArgA, n) = 2 /\ Count(ArgB, n) = 1
    /\ Len(Body.matches) = 1 /\ Len(Body.unmatched_a) >= 1

\* C4 (as claimed): every name in unmatched_a occurs in a and not in b, every
\* name in unmatched_b occurs in b and not in a, and every name in matches
\* occurs in both a and b.
C4_Partition ==
    Answered =>
        /\ \A n \in Range(Body.unmatched_a) :
               list_contains(ArgA, n) /\ ~list_contains(ArgB, n)
        /\ \A n \in Range(Body.unmatched_b) :
               list_contains(ArgB, n) /\ ~list_contains(ArgA, n)
        /\ \A e \in Range(Body.matches) :
               list_contains(ArgA, e.val[1]) /\ list_contains(ArgB, e.val[1])

\* C4 (amended): every name in unmatched_a occurs in a, and more often in a
\* than in b; every name in unmatched_b occurs in b, and more often in b than
\* in a; every name in matches occurs in both a and b.
C4_PartitionByCount ==
    Answered =>
        /\ \A n \in Range(Body.unmatched_a) :
               list_contains(ArgA, n) /\ Count(ArgA, n) > Count(ArgB, n)
        /\ \A n \in Range(Body.unmatched_b) :
               list_contains(ArgB, n) /\ Count(ArgB, n) > Count(ArgA, n)
        /\ \A e \in Range(Body.matches) :
               list_contains(ArgA, e.val[1]) /\ list_contains(ArgB, e.val[1])

C4_Witness ==
    /\ Answered
    /\ \E n \in Range(Body.unmatched_a) : list_contains(ArgB, n)
    /\ Body.unmatched_b # <<>>
    /\ Body.matches # <<>>

\* C9: match_schemas is ordered removal with duplicate counts: matches holds
\* min(count in a, count in b) entries per name in the order the occurrences
\* are met in a; unmatched_a is a, and unmatched_b is b, without the first
\* min(...) occurrences of each name, the rest in their original order.
C9_OrderedRemoval ==
    Answered =>
        /\ Body.matches = MetFrom(ArgA, ArgB, 1)
        /\ Body.unmatched_a = RestFrom(ArgA, ArgB, 1)
        /\ Body.unmatched_b = RestFrom(ArgB, ArgA, 1)

C9_Witness ==
    /\ Answered
    /\ Len(ArgA) = 3 /\ ArgA[1] = ArgA[3] /\ ArgA[1] # ArgA[2]
    /\ Count(ArgB, ArgA[1]) = 1
    /\ Body.unmatched_a = <<ArgA[3]>>
    /\ Len(Body.matches) = 2

C5_TransportFailure ==
    LET failed == Undecodable(request.file_a) \/ Undecodable(request.file_b)
    IN  /\ match_calls <= 1
        /\ failed => match_calls = 0
        /\ pc = "done" =>
               IF failed
               THEN response.status = 400 /\ response.error # ""
               ELSE match_calls = 1 /\ response.status # 400

C5_Witness ==
    /\ pc = "done" /\ response.status = 400 /\ match_calls = 0
    /\ request.file_a.present /\ ~Undecodable(request.file_a)
    /\ ArgA # <<>>
    /\ request.file_b.b64ok /\ ~request.file_b.utf8ok

\* decodable, but invalid JSON, invalid XML, blank, or of an unsupported type
Malformed(f) ==
    /\ f.present /\ ~Undecodable(f)
    /\ \/ FileExt(f) \in {ExtJson, ExtXml} /\ f.content.kind = "invalid"
       \/ FileExt(f) \in {ExtCsv, ExtJson, ExtXlsx, ExtXml} /\ f.content.kind = "blank"
       \/ FileExt(f) \notin {ExtCsv, ExtJson, ExtXlsx, ExtXml}

\* C6: malformed or unsupported content of a decodable file A degrades to an
\* empty schema: no error response for file A, the match runs, and with b
\* the schema of file B the result is matches = [], unmatched_a = [],
\* unmatched_b = b.
C6_Degrades ==
    Malformed(request.file_a) =>
        /\ pc # "start" => ArgA = <<>> /\ response.error # "Could not process file A"
        /\ (pc = "done" /\ ~Undecodable(request.file_b)) =>
               /\ response.status = 200 /\ match_calls = 1
               /\ Body = [matches |-> <<>>, unmatched_a |-> <<>>,
                          unmatched_b |-> ArgB]

C6_Witness ==
    /\ pc = "done" /\ response.status = 200
    /\ FileExt(request.file_a) = ExtJson /\ request.file_a.content.kind = "invalid"
    /\ Len(Body.unmatched_b) = 2

C_citizenid == PyStr(<<"c","i","t","i","z","e","n","i","d">>)
C_fullname  == PyStr(<<"f","u","l","l","n","a","m","e">>)
C_dob       == PyStr(<<"d","o","b">>)
C_address   == PyStr(<<"a","d","d","r","e","s","s">>)

\* both files are CSV tables whose headers are the raw names of the scenario
ScenarioRequest ==
    /\ ~Undecodable(request.file_a) /\ ~Undecodable(request.file_b)
    /\ FileExt(request.file_a) = ExtCsv /\ FileExt(request.file_b) = ExtCsv
    /\ request.file_a.content = Content("columns", ScenarioA)
    /\ request.file_b.content = Content("columns", ScenarioB)

\* C7 (as claimed): the raw names "CitizenID", " Full Name", " DOB" and
\* "citizen_id", "dob", "address" give the schemas [citizenid, fullname, dob]
\* and [citizenid, dob, address], and matching gives matches =
\* [citizenid, dob], a list of the canonical names themselves,
\* unmatched_a = [fullname] and unmatched_b = [address].
C7_Scenario ==
    (ScenarioRequest /\ pc = "done") =>
        /\ ArgA = <<C_citizenid, C_fullname, C_dob>>
        /\ ArgB = <<C_citizenid, C_dob, C_address>>
        /\ Body.matches = <<C_citizenid, C_dob>>
        /\ Body.unmatched_a = <<C_fullname>>
        /\ Body.unmatched_b = <<C_address>>

\* C7 (amended): the same schemas and unmatched lists, with matches =
\* [[citizenid, citizenid], [dob, dob]]: each entry is the pair of the name
\* in schema A and the equal name in schema B.
C7_ScenarioPairs ==
    (ScenarioRequest /\ pc = "done") =>
        /\ ArgA = <<C_citizenid, C_fullname, C_dob>>
        /\ ArgB = <<C_citizenid, C_dob, C_address>>
        /\ Body.matches = <<Entry(C_citizenid), Entry(C_dob)>>
        /\ Body.unmatched_a = <<C_fullname>>
        /\ Body.unmatched_b = <<C_address>>
        /\ response.status = 200

C7_Witness ==
    /\ ScenarioRequest /\ pc = "done"
    /\ Len(Body.matches) = 2 /\ Body.unmatched_a = <<C_fullname>>

-----------------------------------------------------------------------------
(* Normaliser harness: normalize_name applied to bounded raw names *)

Alphabet == {"a", "A", "1", " ", "_", "\t", "-"}

RECURSIVE StringsUpTo(_)
StringsUpTo(n) ==
    IF n = 0 THEN {<<>>}
    ELSE LET shorter == StringsUpTo(n - 1)
         IN  shorter \cup {Append(s, c) : s \in shorter, c \in Alphabet}

ReqIdle == [file_a |-> AbsentFile, file_b |-> AbsentFile]

InitNorm ==
    /\ raw_x \in {PyStr(s) : s \in StringsUpTo(MaxLen)}
    /\ raw_y \in {PyStr(s) : s \in StringsUpTo(MaxLenY)}
    /\ norm_x = NoValue /\ norm_y = NoValue /\ norm_xx = NoValue
    /\ npc = "raw"
    /\ request = ReqIdle /\ pc = "idle" /\ heap = EmptyHeap
    /\ results = NoResults /\ response = NoResponse /\ match_calls = 0

NormalizeOnce ==
    /\ npc = "raw"
    /\ norm_x' = normalize_name(raw_x)
    /\ norm_y' = normalize_name(raw_y)
    /\ npc' = "once"
    /\ UNCHANGED <<raw_x, raw_y, norm_xx>>
    /\ UNCHANGED reqVars

NormalizeAgain ==
    /\ npc = "once"
    /\ norm_xx' = normalize_name(norm_x)
    /\ npc' = "twice"
    /\ UNCHANGED <<raw_x, raw_y, norm_x, norm_y>>
    /\ UNCHANGED reqVars

NextNorm == NormalizeOnce \/ NormalizeAgain

SpecNorm == InitNorm /\ [][NextNorm]_vars

\* C1: normalize_name is idempotent: for every string x (underscores,
\* spaces, tabs in any position included) normalising the normalised name
\* gives the normalised name again.
C1_Idempotent == npc = "twice" => norm_xx = norm_x

\* every space and underscore deleted, every letter lowercased
Squash(s) == lower(replace_del(replace_del(s, " "), "_"))

\* C8: normalize_name is insensitive to letter case, spaces and underscores:
\* two raw names that agree once every space and underscore is deleted and
\* every letter is lowercased have the same normalised name.
C8_Insensitive ==
    (npc # "raw" /\ Squash(raw_x.val) = Squash(raw_y.val)) => norm_x = norm_y

====
